---- MODULE Spec2Model ----
(***************************************************************************)
(* Model of the crypto-indicators MCP server: the module-load code that    *)
(* selects and constructs the exchange client, fetchOhlcvData, and the     *)
(* tool handlers that call it.                                             *)
(*                                                                         *)
(* JavaScript values are modelled as follows.                              *)
(*   - a string that the code builds is a sequence of text pieces, so that *)
(*     a template literal is a concatenation (\o);                         *)
(*   - a value returned by the provider is a record [t, items]: t is the   *)
(*     JavaScript type ("array", "null", "undefined", "object", "string")  *)
(*     and items the elements when t = "array";                            *)
(*   - a thrown value is a record [kind, name, message]: kind "Error" is   *)
(*     an Error object (name is its constructor, message its message), the *)
(*     other kinds are the non-Error values a JavaScript callee may throw  *)
(*     (for kind "string", message holds the characters of the string,     *)
(*     which is not a message property);                                   *)
(*   - a field of a row is a record [t, v]: t = "number" with value v, or  *)
(*     another JavaScript type;                                            *)
(*   - array indices are the 0-based indices of the source; TLA+ sequences *)
(*     are 1-based, so ohlcv[i] is ohlcv.items[i + 1].                     *)
(***************************************************************************)
EXTENDS Integers, Sequences, FiniteSets, TLC

VARIABLES
    env,        \* process.env.EXCHANGE_NAME: [set, value]
    boot,       \* "loading" | "failed" | "ready": the module-load code's position
    exid,       \* const exid
    exchange,   \* const exchange: [exists, id, has, enableRateLimit]
    bootError,  \* the Error thrown at module load, if any
    calls       \* the tool invocations: one record per invocation slot

vars == <<env, boot, exid, exchange, bootError, calls>>

----------------------------------------------------------------------------
(* Bounds of the model *)

\* longest provider response (rows)
MaxRows == 4

\* The invocation slots. Spec runs the tool invocations one after another in
\* one slot, which Release frees for the next invocation.
Calls == {"call"}

----------------------------------------------------------------------------
(* JavaScript values *)

Arr(items) == [t |-> "array", items |-> items]
NonArr(t) == [t |-> t, items |-> <<>>]

\* Array.isArray(v)
IsArray(v) == v.t = "array"

\* v.length of an array
Length(v) == Len(v.items)

\* v[i], i the 0-based index of the source
At(v, i) == v.items[i + 1]

\* a field of a row: a number, or a value that is not a number (null)
Num(n) == [t |-> "number", v |-> n]
NotNum(t) == [t |-> t, v |-> 0]

\* the array of the numbers of s
Numbers(s) == [i \in 1..Len(s) |-> Num(s[i])]

Err(name, message) == [kind |-> "Error", name |-> name, message |-> message]
NonErr(kind) == [kind |-> kind, name |-> "", message |-> <<>>]
NoError == NonErr("none")

SeqUpTo(S, n) == UNION {[1..k -> S] : k \in 0..n}

----------------------------------------------------------------------------
(* Module load: the allow-list and the exchange client *)

ALLOWED_EXCHANGES ==
    <<"binance", "kraken", "coinbase", "bybit", "okx",
      "kucoin", "gate", "huobi", "bitfinex", "mexc">>

AllowedSet == {ALLOWED_EXCHANGES[i] : i \in 1..Len(ALLOWED_EXCHANGES)}

\* ?? in place of ||: only an unset variable takes the default
ExidOfNullish(e) == IF e.set THEN e.value ELSE "binance"

\* process.env.EXCHANGE_NAME || "binance": an unset variable is undefined and
\* the empty string is falsy
ExidOf(e) == IF e.set /\ e.value # "" THEN e.value ELSE "binance"

\* the allow-list check left out
AnyExchangeAllowed(id) == TRUE

\* ALLOWED_EXCHANGES.has(exid)
IsAllowed(id) == id \in AllowedSet

RECURSIVE Join(_, _)
\* [...ALLOWED_EXCHANGES].join(", ")
Join(s, sep) ==
    IF Len(s) = 0 THEN <<>>
    ELSE IF Len(s) = 1 THEN <<s[1]>>
    ELSE <<s[1], sep>> \o Join(Tail(s), sep)

UnsupportedExchange(id) ==
    Err("Error", <<"Unsupported exchange: \"", id, "\". Allowed: ">>
                   \o Join(ALLOWED_EXCHANGES, ", "))

NoClient == [exists |-> FALSE, id |-> "", has |-> FALSE, enableRateLimit |-> FALSE]

\* new ccxt[exid]({ enableRateLimit: true }); has is has["fetchOHLCV"] as the
\* library declares it for that exchange
NewClient(id, has) ==
    [exists |-> TRUE, id |-> id, has |-> has, enableRateLimit |-> TRUE]

EnvValues ==
    { [set |-> FALSE, value |-> ""],
      [set |-> TRUE, value |-> ""],
      [set |-> TRUE, value |-> "binance"],
      [set |-> TRUE, value |-> "kraken"],
      [set |-> TRUE, value |-> "not-a-real-exchange"],
      [set |-> TRUE, value |-> "constructor"] }

----------------------------------------------------------------------------
(* fetchOhlcvData *)

Prefix == "Failed to fetch OHLCV data: "

\* what a function call ends with: a returned asset or a thrown value
NoAsset ==
    [dates |-> <<>>, openings |-> <<>>, highs |-> <<>>, lows |-> <<>>,
     closings |-> <<>>, volumes |-> <<>>]

Return(asset) == [kind |-> "return", asset |-> asset, error |-> NoError]
Throw(error) == [kind |-> "throw", asset |-> NoAsset, error |-> error]
Pending == [kind |-> "none", asset |-> NoAsset, error |-> NoError]

\* new Date(v) for a finite number v inside the time range: a Date object
\* whose time value is v
NewDate(v) == [type |-> "Date", time |-> v]

\* ohlcv.map((row) => row[k])
MapField(ohlcv, k) == [i \in 1..Length(ohlcv) |-> At(At(ohlcv, i - 1), k)]

\* ohlcv.map((row) => new Date(row[0]))
MapDates(ohlcv) == [i \in 1..Length(ohlcv) |-> NewDate(At(At(ohlcv, i - 1), 0))]

\* volumes read from the last field of each row instead of field 5
TransposeVolumeFromLastField(ohlcv) ==
    [dates    |-> MapDates(ohlcv),
     openings |-> MapField(ohlcv, 1),
     highs    |-> MapField(ohlcv, 2),
     lows     |-> MapField(ohlcv, 3),
     closings |-> MapField(ohlcv, 4),
     volumes  |-> [i \in 1..Length(ohlcv) |->
                      At(At(ohlcv, i - 1), Length(At(ohlcv, i - 1)) - 1)]]

\* highs and lows read from each other's field
TransposeHighLowSwapped(ohlcv) ==
    [dates    |-> MapDates(ohlcv),
     openings |-> MapField(ohlcv, 1),
     highs    |-> MapField(ohlcv, 3),
     lows     |-> MapField(ohlcv, 2),
     closings |-> MapField(ohlcv, 4),
     volumes  |-> MapField(ohlcv, 5)]

\* the object literal that fetchOhlcvData returns
Transpose(ohlcv) ==
    [dates    |-> MapDates(ohlcv),
     openings |-> MapField(ohlcv, 1),
     highs    |-> MapField(ohlcv, 2),
     lows     |-> MapField(ohlcv, 3),
     closings |-> MapField(ohlcv, 4),
     volumes  |-> MapField(ohlcv, 5)]

\* !Array.isArray(ohlcv[i]) || ohlcv[i].length < 6
RowIsMalformed(row) == ~IsArray(row) \/ Length(row) < 6

\* the loop run from the last row down: the largest malformed index
LastMalformed(ohlcv, i) ==
    IF \E j \in i..(Length(ohlcv) - 1) : RowIsMalformed(At(ohlcv, j))
    THEN CHOOSE j \in i..(Length(ohlcv) - 1) :
            /\ RowIsMalformed(At(ohlcv, j))
            /\ \A k \in (j + 1)..(Length(ohlcv) - 1) : ~RowIsMalformed(At(ohlcv, k))
    ELSE -1

RECURSIVE FirstMalformed(_, _)
\* the for loop over the rows, from index i on: the index at which it throws,
\* or -1 when it runs to the end
FirstMalformed(ohlcv, i) ==
    IF ~(i < Length(ohlcv)) THEN -1
    ELSE IF RowIsMalformed(At(ohlcv, i)) THEN i
    ELSE FirstMalformed(ohlcv, i + 1)

\* the length test left out: !Array.isArray(ohlcv)
ResponseIsNotArray(ohlcv) == ~IsArray(ohlcv)

\* !Array.isArray(ohlcv) || ohlcv.length === 0
ResponseIsEmpty(ohlcv) == ~IsArray(ohlcv) \/ Length(ohlcv) = 0

\* the empty-response error raised as a row error
NoDataErrorAtRow ==
    Err("Error", <<"Malformed OHLCV row at index ", "0", ": expected 6 values">>)

NoDataError == Err("Error", <<"No OHLCV data returned from exchange">>)

\* the row named by its 1-based position
MalformedRowErrorOneBased(i) ==
    Err("Error", <<"Malformed OHLCV row at index ", ToString(i + 1), ": expected 6 values">>)

MalformedRowError(i) ==
    Err("Error", <<"Malformed OHLCV row at index ", ToString(i), ": expected 6 values">>)

CapabilityError(id) == Err("Error", <<id, " does not support fetchOHLCV">>)

\* the capability check left out
CapabilityNeverChecked(client) == FALSE

\* !exchange.has["fetchOHLCV"]
LacksCapability(client) == ~client.has

\* the try block from the validation on, given the value the request resolved to
ValidateAndTransform(ohlcv) ==
    IF ResponseIsEmpty(ohlcv) THEN Throw(NoDataError)
    ELSE LET i == FirstMalformed(ohlcv, 0) IN
         IF i # -1 THEN Throw(MalformedRowError(i))
         ELSE Return(Transpose(ohlcv))

\* the text `${error.message}` puts in the template: a value without a message
\* property gives "undefined"
MessageText(error) ==
    IF error.kind = "Error" THEN error.message ELSE <<"undefined">>

\* reading error.message of null or undefined throws a TypeError
MessageReadError(error) ==
    Err("TypeError", <<"Cannot read properties of ", error.kind, " (reading 'message')">>)

\* catch (error) { throw new Error(`Failed to fetch OHLCV data: ${error.message}`) }
CatchAndWrap(error) ==
    IF error.kind \in {"null", "undefined"} THEN Throw(MessageReadError(error))
    ELSE Throw(Err("Error", <<Prefix>> \o MessageText(error)))

\* the try/catch of fetchOhlcvData around a completion of its try block
TryCatch(completion) ==
    IF completion.kind = "throw" THEN CatchAndWrap(completion.error) ELSE completion

\* the request with a start time: since is the epoch instead of undefined
RequestSinceEpoch(a) ==
    [symbol |-> a.symbol, timeframe |-> a.timeframe, since |-> "0",
     limit |-> a.limit]

\* the arguments of exchange.fetchOHLCV(symbol, timeframe, undefined, limit)
RequestOf(a) ==
    [symbol |-> a.symbol, timeframe |-> a.timeframe, since |-> "undefined",
     limit |-> a.limit]

\* the request issued a second time
IssueRequestTwice(requests, a) == Append(Append(requests, RequestOf(a)), RequestOf(a))

\* await exchange.fetchOHLCV(...): the requests of the invocation so far, and
\* the one this call issues
IssueRequest(requests, a) == Append(requests, RequestOf(a))

----------------------------------------------------------------------------
(* The tool layer: parameter schemas and handlers *)

UpperAlnum ==
    {"A", "B", "C", "D", "E", "F", "G", "H", "I", "J", "K", "L", "M",
     "N", "O", "P", "Q", "R", "S", "T", "U", "V", "W", "X", "Y", "Z",
     "0", "1", "2", "3", "4", "5", "6", "7", "8", "9"}

MaxSymbolPart == 10
MinLimit == 1
MaxLimit == 10000
DefaultLimit == 100

\* the pattern without its character classes: anything around a slash
SymbolContainsSlash(s) == \E k \in 1..Len(s) : s[k] = "/"

\* /^[A-Z0-9]{1,10}\/[A-Z0-9]{1,10}$/ on a string given as its characters
SymbolMatches(s) ==
    \E k \in 1..Len(s) :
        /\ s[k] = "/"
        /\ k - 1 >= 1 /\ k - 1 <= MaxSymbolPart
        /\ Len(s) - k >= 1 /\ Len(s) - k <= MaxSymbolPart
        /\ \A j \in 1..Len(s) : j # k => s[j] \in UpperAlnum

Timeframes ==
    {"1m", "3m", "5m", "15m", "30m", "1h", "2h", "4h", "6h", "12h", "1d", "1w", "1M"}

\* z.enum([...]).default("1h") and z.number().int().min(1).max(10000).default(100):
\* an absent parameter takes the default
WithDefault(p, d) == IF p.set THEN p.value ELSE d

ParseArgs(raw) ==
    [symbol |-> raw.symbol,
     timeframe |-> WithDefault(raw.timeframe, "1h"),
     limit |-> WithDefault(raw.limit, DefaultLimit)]

\* a number parameter: its integer part and its tenths (1.5 is value 1, tenths 5)
GivenNumber(value, tenths) == [set |-> TRUE, value |-> value, tenths |-> tenths]
AbsentNumber == [set |-> FALSE, value |-> 0, tenths |-> 0]

\* z.number().int() on a parameter that is given
IsInteger(p) == p.set => p.tenths = 0

\* the schema accepts the request
SchemaAccepts(raw) ==
    /\ SymbolMatches(raw.symbol)
    /\ ParseArgs(raw).timeframe \in Timeframes
    /\ IsInteger(raw.limit)
    /\ ParseArgs(raw).limit >= MinLimit
    /\ ParseArgs(raw).limit <= MaxLimit

Given(v) == [set |-> TRUE, value |-> v]
Absent(v) == [set |-> FALSE, value |-> v]

\* the tool requests of the model
RawArgs ==
    { [symbol |-> <<"B", "T", "C", "/", "U", "S", "D", "T">>,
       timeframe |-> Absent(""), limit |-> AbsentNumber],
      [symbol |-> <<"E", "T", "H", "/", "B", "T", "C">>,
       timeframe |-> Given("1d"), limit |-> GivenNumber(10000, 0)],
      [symbol |-> <<"b", "t", "c", "/", "U", "S", "D", "T">>,
       timeframe |-> Given("1h"), limit |-> GivenNumber(100, 0)],
      [symbol |-> <<"B", "T", "C", "/", "U", "S", "D", "T">>,
       timeframe |-> Given("2d"), limit |-> GivenNumber(100, 0)],
      [symbol |-> <<"B", "T", "C", "/", "U", "S", "D", "T">>,
       timeframe |-> Given("1h"), limit |-> GivenNumber(0, 0)],
      [symbol |-> <<"B", "T", "C", "/", "U", "S", "D", "T">>,
       timeframe |-> Given("1h"), limit |-> GivenNumber(10001, 0)],
      [symbol |-> <<"B", "T", "C", "/", "U", "S", "D", "T">>,
       timeframe |-> Given("1h"), limit |-> GivenNumber(1, 5)] }

NoArgs == [symbol |-> <<>>, timeframe |-> "", limit |-> 0]
NoRaw == [symbol |-> <<>>, timeframe |-> Absent(""), limit |-> AbsentNumber]

\* one registered tool of each tool module
Tools ==
    {"calculate_awesome_oscillator",
     "calculate_acceleration_bands_strategy",
     "calculate_accumulation_distribution"}

\* the data source each tool's registered description names: "... using
\* Binance OHLCV data"
DescribedProvider(tool) == "binance"

NoResult == [fn |-> "", dates |-> <<>>, columns |-> <<>>]

\* the indicator call of each handler: the library function and the part of
\* the asset it is given (the library's value is a function of these)
IndicatorCall(tool, asset) ==
    IF tool = "calculate_awesome_oscillator"
    THEN [fn |-> "awesomeOscillator", dates |-> <<>>,
          columns |-> <<asset.highs, asset.lows>>]
    ELSE IF tool = "calculate_acceleration_bands_strategy"
    THEN [fn |-> "accelerationBandsStrategy", dates |-> asset.dates,
          columns |-> <<asset.openings, asset.highs, asset.lows,
                        asset.closings, asset.volumes>>]
    ELSE [fn |-> "accumulationDistribution", dates |-> <<>>,
          columns |-> <<asset.highs, asset.lows, asset.closings, asset.volumes>>]

\* JSON.stringify(result): the text of the value
JsonText(result) == [kind |-> "json", value |-> result, chars |-> <<>>]

\* `Error: ${error.message}`
ErrorText(error) ==
    [kind |-> "message", value |-> NoResult, chars |-> <<"Error: ">> \o MessageText(error)]

HandlerReturn(text) ==
    [kind |-> "return", content |-> <<[type |-> "text", text |-> text]>>,
     error |-> NoError]
HandlerThrow(error) == [kind |-> "throw", content |-> <<>>, error |-> error]
NoOutcome == [kind |-> "none", content |-> <<>>, error |-> NoError]

\* the handler without its catch block: the error leaves the handler
HandlerRethrow(error) == HandlerThrow(error)

\* catch (error) { return { content: [{ type: "text", text: `Error: ...` }] } }
HandlerCatch(error) ==
    IF error.kind \in {"null", "undefined"} THEN HandlerThrow(MessageReadError(error))
    ELSE HandlerReturn(ErrorText(error))

\* what the indicator library and JSON.stringify may do with an asset
IndicatorBehaviours == {"returns", "throws", "unserializable"}

IndicatorError == Err("RangeError", <<"Invalid array length">>)
StringifyError == Err("TypeError", <<"Do not know how to serialize a BigInt">>)

\* the error the indicator call or JSON.stringify throws, if any
BehaviourError(behaviour) ==
    IF behaviour = "throws" THEN IndicatorError
    ELSE IF behaviour = "unserializable" THEN StringifyError
    ELSE NoError

\* the value thrown inside the try block of the handler after a successful fetch
ThrownInHandler(fetched, behaviour) ==
    IF fetched.kind = "return" THEN BehaviourError(behaviour) ELSE NoError

\* the handler from the point where fetchOhlcvData has settled
HandlerAfterFetch(tool, fetched, behaviour) ==
    IF fetched.kind = "throw" THEN HandlerCatch(fetched.error)
    ELSE IF BehaviourError(behaviour) # NoError
    THEN HandlerCatch(BehaviourError(behaviour))
    ELSE HandlerReturn(JsonText(IndicatorCall(tool, fetched.asset)))

\* the indicator called whether or not the fetch succeeded
IndicatorCalledRegardless(fetched) == 1

\* the indicator function is called once fetchOhlcvData has returned
IndicatorCallsAfter(fetched) == IF fetched.kind = "return" THEN 1 ELSE 0

----------------------------------------------------------------------------
(* The provider: what exchange.fetchOHLCV may resolve to or reject with *)

GoodRow == Arr(Numbers(<<1, 2, 3, 4, 5, 6>>))
LongRow == Arr(Numbers(<<7, 8, 9, 10, 11, 12, 13>>))
ShortRow == Arr(Numbers(<<1, 2, 3, 4>>))
NullRow == NonArr("null")

RowPool == {GoodRow, LongRow, ShortRow, NullRow}

NoResponse == NonArr("none")

Responses ==
    {Arr(rows) : rows \in SeqUpTo(RowPool, MaxRows)}
        \cup {NonArr("undefined"), NonArr("null"), NonArr("object"), NonArr("string")}

Thrown ==
    { Err("NetworkError", <<"binance GET https://api.binance.com timed out">>),
      Err("BadSymbol", <<"binance does not have market symbol">>),
      Err("Error", <<Prefix, "upstream">>),
      [kind |-> "string", name |-> "", message |-> <<"rate limit exceeded">>],
      NonErr("object"),
      NonErr("null"),
      NonErr("undefined") }

----------------------------------------------------------------------------
(* State *)

IdleCall ==
    [pc |-> "idle", tool |-> "", raw |-> NoRaw, args |-> NoArgs,
     fetchCalls |-> 0, requests |-> <<>>, response |-> NoResponse,
     rejection |-> NoError, transformed |-> FALSE, fetched |-> Pending,
     indicatorCalls |-> 0, handlerError |-> NoError, outcome |-> NoOutcome,
     reused |-> FALSE]

Init ==
    /\ env \in EnvValues
    /\ boot = "loading"
    /\ exid = ""
    /\ exchange = NoClient
    /\ bootError = NoError
    /\ calls = [c \in Calls |-> IdleCall]

\* The top-level code of the fetchOhlcvData module, run once when the server
\* requires it.
LoadModule ==
    /\ boot = "loading"
    /\ exid' = ExidOf(env)
    /\ IF ~IsAllowed(exid')
       THEN /\ boot' = "failed"
            /\ bootError' = UnsupportedExchange(exid')
            /\ exchange' = exchange
       ELSE /\ boot' = "ready"
            /\ bootError' = bootError
            /\ \E has \in BOOLEAN : exchange' = NewClient(exid', has)
    /\ UNCHANGED <<env, calls>>

\* The framework receives a tool request. A request the schema refuses never
\* reaches the handler. Otherwise the handler runs up to its first await:
\* fetchOhlcvData checks the capability and either throws (and the handler
\* completes) or issues the request.
ToolCall(c, tool, raw) ==
    /\ boot = "ready"
    /\ calls[c].pc = "idle"
    /\ LET started == [IdleCall EXCEPT !.tool = tool, !.raw = raw,
                                       !.reused = calls[c].reused] IN
       IF ~SchemaAccepts(raw)
       THEN calls' = [calls EXCEPT ![c] = [started EXCEPT !.pc = "rejected"]]
       ELSE LET a == ParseArgs(raw) IN
            IF LacksCapability(exchange)
            THEN LET fetched == TryCatch(Throw(CapabilityError(exid))) IN
                 calls' = [calls EXCEPT ![c] =
                    [started EXCEPT !.pc = "done", !.args = a, !.fetchCalls = 1,
                                    !.fetched = fetched,
                                    !.indicatorCalls = IndicatorCallsAfter(fetched),
                                    !.outcome = HandlerAfterFetch(tool, fetched, "returns")]]
            ELSE calls' = [calls EXCEPT ![c] =
                    [started EXCEPT !.pc = "awaiting", !.args = a, !.fetchCalls = 1,
                                    !.requests = IssueRequest(started.requests, a)]]
    /\ UNCHANGED <<env, boot, exid, exchange, bootError>>

\* the response kept in a module-level buffer that every invocation reads: an
\* invocation validates the response another one has received, when there is one
ProviderResolvesShared(c, ohlcv, behaviour) ==
    /\ calls[c].pc = "awaiting"
    /\ LET others == {d \in (DOMAIN calls) \ {c} : calls[d].response # NoResponse}
           buffer == IF others = {} THEN ohlcv
                     ELSE calls[CHOOSE d \in others : TRUE].response
           tried == ValidateAndTransform(buffer)
           fetched == TryCatch(tried) IN
       /\ behaviour = "returns" \/ fetched.kind = "return"
       /\ calls' = [calls EXCEPT ![c] =
             [@ EXCEPT !.pc = "done", !.response = ohlcv,
                       !.transformed = (tried.kind = "return"),
                       !.fetched = fetched,
                       !.indicatorCalls = IndicatorCallsAfter(fetched),
                       !.handlerError = ThrownInHandler(fetched, behaviour),
                       !.outcome = HandlerAfterFetch(calls[c].tool, fetched, behaviour)]]
    /\ UNCHANGED <<env, boot, exid, exchange, bootError>>

\* exchange.fetchOHLCV resolves: fetchOhlcvData validates and transposes the
\* response, then the handler calls the indicator and serializes its result.
ProviderResolves(c, ohlcv, behaviour) ==
    /\ calls[c].pc = "awaiting"
    /\ LET tried == ValidateAndTransform(ohlcv)
           fetched == TryCatch(tried) IN
       /\ behaviour = "returns" \/ fetched.kind = "return"
       /\ calls' = [calls EXCEPT ![c] =
             [@ EXCEPT !.pc = "done", !.response = ohlcv,
                       !.transformed = (tried.kind = "return"),
                       !.fetched = fetched,
                       !.indicatorCalls = IndicatorCallsAfter(fetched),
                       !.handlerError = ThrownInHandler(fetched, behaviour),
                       !.outcome = HandlerAfterFetch(calls[c].tool, fetched, behaviour)]]
    /\ UNCHANGED <<env, boot, exid, exchange, bootError>>

\* a circuit breaker: a provider failure switches the capability off for the
\* invocations that follow
ProviderRejectsTripsBreaker(c, thrown) ==
    /\ calls[c].pc = "awaiting"
    /\ LET fetched == TryCatch(Throw(thrown)) IN
       calls' = [calls EXCEPT ![c] =
             [@ EXCEPT !.pc = "done", !.rejection = thrown,
                       !.fetched = fetched,
                       !.indicatorCalls = IndicatorCallsAfter(fetched),
                       !.outcome = HandlerAfterFetch(calls[c].tool, fetched, "returns")]]
    /\ exchange' = [exchange EXCEPT !.has = FALSE]
    /\ UNCHANGED <<env, boot, exid, bootError>>

\* the rejection dropped: the promise of the invocation never settles
ProviderRejectionDropped(c, thrown) ==
    /\ calls[c].pc = "awaiting"
    /\ calls' = [calls EXCEPT ![c] = [@ EXCEPT !.rejection = thrown]]
    /\ UNCHANGED <<env, boot, exid, exchange, bootError>>

\* exchange.fetchOHLCV rejects: the catch block of fetchOhlcvData, then the
\* catch block of the handler.
ProviderRejects(c, thrown) ==
    /\ calls[c].pc = "awaiting"
    /\ LET fetched == TryCatch(Throw(thrown)) IN
       calls' = [calls EXCEPT ![c] =
             [@ EXCEPT !.pc = "done", !.rejection = thrown,
                       !.fetched = fetched,
                       !.indicatorCalls = IndicatorCallsAfter(fetched),
                       !.outcome = HandlerAfterFetch(calls[c].tool, fetched, "returns")]]
    /\ UNCHANGED <<env, boot, exid, exchange, bootError>>

\* The framework has delivered the result; the slot is free for the next
\* tool request. Nothing of the invocation is kept; reused only records, for
\* the properties, that the slot has served an earlier invocation.
Release(c) ==
    /\ calls[c].pc \in {"done", "rejected"}
    /\ calls' = [calls EXCEPT ![c] = [IdleCall EXCEPT !.reused = TRUE]]
    /\ UNCHANGED <<env, boot, exid, exchange, bootError>>

Next ==
    \/ LoadModule
    \/ \E c \in Calls, tool \in Tools, raw \in RawArgs : ToolCall(c, tool, raw)
    \/ \E c \in Calls, ohlcv \in Responses, b \in IndicatorBehaviours :
          ProviderResolves(c, ohlcv, b)
    \/ \E c \in Calls, thrown \in Thrown : ProviderRejects(c, thrown)
    \/ \E c \in Calls : Release(c)

Spec == Init /\ [][Next]_vars

----------------------------------------------------------------------------
(* Two invocations in flight at once on the shared client *)

\* longest provider response (rows) when two invocations are in flight
MaxPairRows == 1

PairCalls == {"first", "second"}

\* a row that agrees with GoodRow on fields 0..5 and has a seventh field
ExtraRow == Arr(Numbers(<<1, 2, 3, 4, 5, 6>>) \o <<Num(99)>>)

\* a row of six fields, one of them null
NullFieldRow == Arr(<<Num(1), NotNum("null"), Num(3), Num(4), Num(5), Num(6)>>)

PairRowPool == {GoodRow, ExtraRow, NullFieldRow}

PairResponses ==
    {Arr(rows) : rows \in SeqUpTo(PairRowPool, MaxPairRows)} \cup {NonArr("undefined")}

PairThrown ==
    { Err("NetworkError", <<"binance GET https://api.binance.com timed out">>),
      NonErr("undefined") }

PairTools == {"calculate_acceleration_bands_strategy"}

PairArgs ==
    {raw \in RawArgs : raw.symbol[1] \in {"E", "b"} \/ ~raw.limit.set}

PairEnvValues == {e \in EnvValues : ~e.set}

PairInit ==
    /\ env \in PairEnvValues
    /\ boot = "loading"
    /\ exid = ""
    /\ exchange = NoClient
    /\ bootError = NoError
    /\ calls = [c \in PairCalls |-> IdleCall]

PairNext ==
    \/ LoadModule
    \/ \E c \in PairCalls, tool \in PairTools, raw \in PairArgs : ToolCall(c, tool, raw)
    \/ \E c \in PairCalls, ohlcv \in PairResponses, b \in IndicatorBehaviours :
          ProviderResolves(c, ohlcv, b)
    \/ \E c \in PairCalls, thrown \in PairThrown : ProviderRejects(c, thrown)
    \/ \E c \in PairCalls : Release(c)

SpecPair == PairInit /\ [][PairNext]_vars

\* the provider call of invocation c settles
ProviderSettles(c) ==
    \/ \E ohlcv \in PairResponses, b \in IndicatorBehaviours : ProviderResolves(c, ohlcv, b)
    \/ \E thrown \in PairThrown : ProviderRejects(c, thrown)

\* the provider answers every request in the end, and the event loop then
\* resumes the invocation awaiting it
SpecLive == SpecPair /\ \A c \in PairCalls : WF_vars(ProviderSettles(c))

----------------------------------------------------------------------------
(* Vocabulary of the properties *)

\* the invocation has completed: fetchOhlcvData and the handler have settled
Completed(c) == calls[c].pc = "done"

\* the provider resolved the invocation's request with a value
Responded(c) == Completed(c) /\ calls[c].response.t # "none"

\* the provider call of the invocation threw
Rejected(c) == Completed(c) /\ calls[c].rejection.kind # "none"

\* row i (0-based) of the response is a list of at least 6 fields
RowWellFormed(c, i) ==
    /\ calls[c].response.items[i + 1].t = "array"
    /\ Len(calls[c].response.items[i + 1].items) >= 6

\* the response is a list of N >= 1 rows, each a list of at least 6 fields
WellFormedResponse(c) ==
    /\ Responded(c)
    /\ calls[c].response.t = "array"
    /\ Len(calls[c].response.items) >= 1
    /\ \A i \in 0..(Len(calls[c].response.items) - 1) : RowWellFormed(c, i)

\* field k (0-based) of row i (0-based) of the response
Field(c, i, k) == calls[c].response.items[i + 1].items[k + 1]

\* sub occurs in s as a run of consecutive pieces
Contains(s, sub) ==
    \E k \in 0..(Len(s) - Len(sub)) : SubSeq(s, k + 1, k + Len(sub)) = sub

\* the decimal numerals of the row indices an error message could name
IndexNumerals == {ToString(i) : i \in 0..(MaxRows + 1)}

----------------------------------------------------------------------------
(* C1 *)

\* C1: for every provider response that is a list of N >= 1 rows of at least 6
\* fields each, fetchOhlcvData returns six columns of length exactly N; for
\* every index i, dates[i] is the timestamp built from field 0 of row i and
\* openings[i], highs[i], lows[i], closings[i], volumes[i] are fields 1..5 of
\* row i, in the provider's row order.
C1_WellFormedResponseIsTransposed ==
    \A c \in Calls :
        WellFormedResponse(c) =>
            LET n == Len(calls[c].response.items)
                a == calls[c].fetched.asset IN
            /\ calls[c].fetched.kind = "return"
            /\ Len(a.dates) = n /\ Len(a.openings) = n /\ Len(a.highs) = n
            /\ Len(a.lows) = n /\ Len(a.closings) = n /\ Len(a.volumes) = n
            /\ \A i \in 0..(n - 1) :
                  /\ a.dates[i + 1] = [type |-> "Date", time |-> Field(c, i, 0)]
                  /\ a.openings[i + 1] = Field(c, i, 1)
                  /\ a.highs[i + 1] = Field(c, i, 2)
                  /\ a.lows[i + 1] = Field(c, i, 3)
                  /\ a.closings[i + 1] = Field(c, i, 4)
                  /\ a.volumes[i + 1] = Field(c, i, 5)

\* a response of several different well-formed rows has been transposed
C1_Witness ==
    \E c \in Calls :
        /\ WellFormedResponse(c)
        /\ Len(calls[c].response.items) >= 2
        /\ calls[c].response.items[1] # calls[c].response.items[2]
        /\ calls[c].fetched.kind = "return"

----------------------------------------------------------------------------
(* C2 *)

SixColumns(a) == <<a.dates, a.openings, a.highs, a.lows, a.closings, a.volumes>>

\* C2: a completed invocation of fetchOhlcvData has exactly one of two
\* outcomes: an error, with no PriceSeries and no column built, or a
\* PriceSeries whose six columns all have the same length >= 1, built only
\* after every row passed validation.
C2_ErrorOrCompleteSeries ==
    \A c \in Calls :
        Completed(c) =>
            \/ /\ calls[c].fetched.kind = "throw"
               /\ calls[c].fetched.error.kind = "Error"
               /\ ~calls[c].transformed
               /\ \A k \in 1..6 : SixColumns(calls[c].fetched.asset)[k] = <<>>
            \/ /\ calls[c].fetched.kind = "return"
               /\ calls[c].fetched.error.kind = "none"
               /\ calls[c].transformed
               /\ WellFormedResponse(c)
               /\ \A k \in 1..6 :
                     /\ Len(SixColumns(calls[c].fetched.asset)[k]) >= 1
                     /\ Len(SixColumns(calls[c].fetched.asset)[k])
                            = Len(calls[c].fetched.asset.dates)

\* a response whose last row is malformed, after well-formed rows, ended in
\* an error
C2_Witness ==
    \E c \in Calls :
        /\ Responded(c)
        /\ calls[c].response.t = "array"
        /\ Len(calls[c].response.items) >= 2
        /\ RowWellFormed(c, 0)
        /\ ~RowWellFormed(c, Len(calls[c].response.items) - 1)
        /\ calls[c].fetched.kind = "throw"
        /\ ~calls[c].transformed

----------------------------------------------------------------------------
(* C3 *)

\* C3: when the provider response is an empty list or not a list at all,
\* fetchOhlcvData fails with the malformed-response error, whose message names
\* no row index, and returns no PriceSeries.
C3_EmptyOrNonListResponseFails ==
    \A c \in Calls :
        (Responded(c) /\ (calls[c].response.t # "array" \/ calls[c].response.items = <<>>)) =>
            /\ calls[c].fetched.kind = "throw"
            /\ calls[c].fetched.error.message
                  = <<"Failed to fetch OHLCV data: ", "No OHLCV data returned from exchange">>
            /\ \A k \in 1..Len(calls[c].fetched.error.message) :
                  calls[c].fetched.error.message[k] \notin IndexNumerals
            /\ calls[c].fetched.asset = NoAsset

\* both cases have happened: this one is the empty list
C3_WitnessEmptyList ==
    \E c \in Calls :
        /\ Responded(c)
        /\ calls[c].response = [t |-> "array", items |-> <<>>]
        /\ calls[c].fetched.kind = "throw"

\* a response that is not a list (undefined, null, an object, a string)
C3_WitnessNotAList ==
    \E c \in Calls :
        /\ Responded(c)
        /\ calls[c].response.t \in {"undefined", "null", "object", "string"}
        /\ calls[c].fetched.kind = "throw"

----------------------------------------------------------------------------
(* C4 *)

\* the 0-based indices of the malformed rows of the response
MalformedRows(c) ==
    {i \in 0..(Len(calls[c].response.items) - 1) : ~RowWellFormed(c, i)}

\* C4: when the response is a non-empty list with a row of fewer than 6 fields
\* (or a row that is not a list), fetchOhlcvData fails with a malformed-row
\* error whose message contains the index of a malformed row, however many
\* well-formed rows precede or follow it.
C4_MalformedRowIsNamed ==
    \A c \in Calls :
        (/\ Responded(c)
         /\ calls[c].response.t = "array"
         /\ calls[c].response.items # <<>>
         /\ MalformedRows(c) # {}) =>
            /\ calls[c].fetched.kind = "throw"
            /\ calls[c].fetched.asset = NoAsset
            /\ \E i \in MalformedRows(c) :
                  calls[c].fetched.error.message
                      = <<"Failed to fetch OHLCV data: ", "Malformed OHLCV row at index ",
                          ToString(i), ": expected 6 values">>

\* row 3 has only 4 fields and rows 0..2 are well-formed: the message names 3
C4_Witness ==
    \E c \in Calls :
        /\ Responded(c)
        /\ calls[c].response.t = "array"
        /\ Len(calls[c].response.items) = 4
        /\ MalformedRows(c) = {3}
        /\ Len(calls[c].response.items[4].items) = 4
        /\ Contains(calls[c].fetched.error.message, <<"Malformed OHLCV row at index ", "3">>)

\* a malformed row followed by well-formed rows is named as well
C4_WitnessFollowed ==
    \E c \in Calls :
        /\ Responded(c)
        /\ calls[c].response.t = "array"
        /\ Len(calls[c].response.items) = 3
        /\ MalformedRows(c) = {1}
        /\ Contains(calls[c].fetched.error.message, <<"Malformed OHLCV row at index ", "1">>)

----------------------------------------------------------------------------
(* C5 *)

\* C5: when the provider does not declare fetchOHLCV, fetchOhlcvData fails
\* with a capability error that names the provider identifier, and no request
\* is ever issued: no invocation is awaiting a response or holds a request, a
\* response or a rejection.
C5_NoCapabilityNoRequest ==
    \A c \in Calls :
        (exchange.exists /\ ~exchange.has) =>
            /\ calls[c].requests = <<>>
            /\ calls[c].pc # "awaiting"
            /\ calls[c].response.t = "none"
            /\ calls[c].rejection.kind = "none"
            /\ Completed(c) =>
                  /\ calls[c].fetched.kind = "throw"
                  /\ calls[c].fetched.error.message
                        = <<"Failed to fetch OHLCV data: ", exid, " does not support fetchOHLCV">>
                  /\ exid = exchange.id
                  /\ exid \in {"binance", "kraken", "coinbase", "bybit", "okx",
                               "kucoin", "gate", "huobi", "bitfinex", "mexc"}

\* an invocation has failed on the capability check
C5_Witness ==
    \E c \in Calls :
        /\ exchange.exists /\ ~exchange.has
        /\ Completed(c)
        /\ calls[c].fetchCalls = 1
        /\ Contains(calls[c].fetched.error.message, <<exid, " does not support fetchOHLCV">>)

----------------------------------------------------------------------------
(* C6 *)

\* the text of the original failure: the message of an Error, the characters
\* of a thrown string
HasText(thrown) == thrown.kind \in {"Error", "string"}

\* C6: whatever value exchange.fetchOHLCV throws (an Error, a provider
\* exception object, a string, undefined, null), fetchOhlcvData fails with a
\* single error whose message starts with "Failed to fetch OHLCV data: " and
\* contains the text of the original failure.
C6_AnyThrownValueIsWrapped ==
    \A c \in Calls :
        Rejected(c) =>
            /\ calls[c].fetched.kind = "throw"
            /\ calls[c].fetched.error.kind = "Error"
            /\ calls[c].fetched.error.message # <<>>
            /\ Head(calls[c].fetched.error.message) = "Failed to fetch OHLCV data: "
            /\ HasText(calls[c].rejection) =>
                  Contains(Tail(calls[c].fetched.error.message), calls[c].rejection.message)

----------------------------------------------------------------------------
(* C7 *)

\* the message of the error raised inside fetchOhlcvData, by kind of failure
OriginalMessage(c) ==
    IF Rejected(c) THEN calls[c].rejection.message
    ELSE IF ~Responded(c) THEN <<exid, " does not support fetchOHLCV">>
    ELSE IF calls[c].response.t # "array" \/ calls[c].response.items = <<>>
    THEN <<"No OHLCV data returned from exchange">>
    ELSE <<"Malformed OHLCV row at index ",
           ToString(CHOOSE i \in MalformedRows(c) : \A j \in MalformedRows(c) : i <= j),
           ": expected 6 values">>

\* C7: every per-call error kind (capability, empty or non-list response,
\* malformed row, transport or provider error) leaves fetchOhlcvData as the
\* same error type, a plain Error, whose message is exactly
\* "Failed to fetch OHLCV data: " followed by the original message, the prefix
\* applied once.
C7_UniformWrappedError ==
    \A c \in Calls :
        (Completed(c) /\ calls[c].fetched.kind = "throw") =>
            /\ calls[c].fetched.error.kind = "Error"
            /\ calls[c].fetched.error.name = "Error"
            /\ calls[c].fetched.error.message
                  = <<"Failed to fetch OHLCV data: ">> \o OriginalMessage(c)

----------------------------------------------------------------------------
(* C8 *)

AllowList ==
    {"binance", "kraken", "coinbase", "bybit", "okx",
     "kucoin", "gate", "huobi", "bitfinex", "mexc"}

\* C8: a provider client exists only for an identifier of the allow-list; when
\* the selected identifier is not in the allow-list, module load fails with an
\* error that names the identifier and lists the allowed identifiers, no
\* client is constructed and no tool invocation ever starts.
C8_OnlyAllowListedClient ==
    /\ exchange.exists => (exchange.id \in AllowList /\ exchange.id = exid /\ boot = "ready")
    /\ (boot # "loading" /\ env.set /\ env.value # "" /\ env.value \notin AllowList) =>
          /\ boot = "failed"
          /\ ~exchange.exists
          /\ bootError.kind = "Error"
          /\ Contains(bootError.message, <<"Unsupported exchange: \"", env.value>>)
          /\ \A id \in AllowList : \E k \in 1..Len(bootError.message) : bootError.message[k] = id
          /\ \A c \in Calls : calls[c].pc = "idle"
    /\ boot = "failed" => (env.set /\ env.value \notin AllowList)

\* module load has refused an identifier that is not in the allow-list
C8_Witness ==
    /\ boot = "failed"
    /\ env.value = "not-a-real-exchange"
    /\ ~exchange.exists

----------------------------------------------------------------------------
(* C9 *)

\* C9 as stated: every completed invocation of fetchOhlcvData has issued
\* exactly one network request.
C9_ExactlyOneRequest ==
    \A c \in Calls : (Completed(c) /\ calls[c].fetchCalls = 1) => Len(calls[c].requests) = 1

\* C9 as amended: an invocation that passes the capability check issues
\* exactly one network request, an invocation that fails it issues none, and
\* no invocation ever issues a second request, whatever the provider answers.
C9_OneRequestUnlessNoCapability ==
    \A c \in Calls :
        /\ Len(calls[c].requests) <= 1
        /\ calls[c].pc = "awaiting" => Len(calls[c].requests) = 1
        /\ Completed(c) => Len(calls[c].requests) = (IF exchange.has THEN 1 ELSE 0)
        /\ (Responded(c) \/ Rejected(c)) => Len(calls[c].requests) = 1

\* an invocation whose request the provider failed has completed with its one
\* request
C9_Witness ==
    \E c \in Calls : Rejected(c) /\ Len(calls[c].requests) = 1

----------------------------------------------------------------------------
(* C10 *)

\* the text of the single content item of the payload
PayloadText(c) == calls[c].outcome.content[1].text

\* C10: every completed handler invocation has returned a payload with
\* exactly one text item and thrown nothing; the text is "Error: " followed by
\* the error's message when fetchOhlcvData failed or when the indicator call
\* or the serialization threw, and the JSON text of the indicator result
\* otherwise.
C10_HandlerAlwaysReturnsText ==
    \A c \in Calls :
        /\ Completed(c) =>
              /\ calls[c].outcome.kind = "return"
              /\ calls[c].outcome.error.kind = "none"
              /\ Len(calls[c].outcome.content) = 1
              /\ calls[c].outcome.content[1].type = "text"
              /\ calls[c].fetched.kind = "throw" =>
                    /\ PayloadText(c).kind = "message"
                    /\ PayloadText(c).chars = <<"Error: ">> \o calls[c].fetched.error.message
              /\ (calls[c].fetched.kind = "return" /\ calls[c].handlerError.kind # "none") =>
                    /\ PayloadText(c).kind = "message"
                    /\ PayloadText(c).chars = <<"Error: ">> \o calls[c].handlerError.message
              /\ (calls[c].fetched.kind = "return" /\ calls[c].handlerError.kind = "none") =>
                    /\ PayloadText(c).kind = "json"
                    /\ PayloadText(c).value.fn # ""
                    /\ PayloadText(c).chars = <<>>
        /\ ~Completed(c) => calls[c].outcome.kind = "none"

\* a handler whose indicator call threw has returned the error text
C10_Witness ==
    \E c \in Calls :
        /\ Completed(c)
        /\ calls[c].fetched.kind = "return"
        /\ calls[c].handlerError.kind = "Error"
        /\ calls[c].outcome.kind = "return"
        /\ Head(PayloadText(c).chars) = "Error: "

\* a handler whose fetch failed has returned the error text
C10_WitnessFetchFailed ==
    \E c \in Calls :
        /\ Completed(c)
        /\ calls[c].fetched.kind = "throw"
        /\ calls[c].outcome.kind = "return"
        /\ Head(PayloadText(c).chars) = "Error: "

\* a handler has returned the JSON text of the indicator result
C10_WitnessJson ==
    \E c \in Calls :
        /\ Completed(c)
        /\ calls[c].outcome.kind = "return"
        /\ PayloadText(c).kind = "json"

----------------------------------------------------------------------------
(* C11 *)

\* the handler of the invocation has been entered
HandlerEntered(c) == calls[c].pc \in {"awaiting", "done"}

\* BASE/QUOTE: 1 to 10 upper-case alphanumerics, a slash, 1 to 10 upper-case
\* alphanumerics
IsBaseQuote(s) ==
    \E k \in 1..Len(s) :
        /\ s[k] = "/"
        /\ (k - 1) \in 1..10
        /\ (Len(s) - k) \in 1..10
        /\ \A j \in (1..Len(s)) \ {k} : s[j] \in UpperAlnum

\* the request's parameters pass validation: the symbol is BASE/QUOTE, the
\* timeframe is absent or one of the thirteen, the limit is absent or an
\* integer in 1..10000
RequestIsValid(raw) ==
    /\ IsBaseQuote(raw.symbol)
    /\ raw.timeframe.set =>
          raw.timeframe.value \in {"1m", "3m", "5m", "15m", "30m", "1h", "2h", "4h",
                                   "6h", "12h", "1d", "1w", "1M"}
    /\ raw.limit.set =>
          (raw.limit.tenths = 0 /\ raw.limit.value >= 1 /\ raw.limit.value <= 10000)

\* C11: fetchOhlcvData is invoked only with validated arguments (a BASE/QUOTE
\* symbol, one of the thirteen timeframes, an integer limit in 1..10000), and
\* a tool request whose parameters fail validation never reaches
\* fetchOhlcvData and issues no network request.
C11_FetchOnlyWithValidatedArguments ==
    \A c \in Calls :
        /\ (calls[c].fetchCalls > 0 \/ calls[c].requests # <<>> \/ HandlerEntered(c)) =>
              /\ RequestIsValid(calls[c].raw)
              /\ calls[c].tool \in Tools
              /\ IsBaseQuote(calls[c].args.symbol)
              /\ calls[c].args.timeframe \in {"1m", "3m", "5m", "15m", "30m", "1h", "2h",
                                              "4h", "6h", "12h", "1d", "1w", "1M"}
              /\ calls[c].args.limit \in 1..10000
        /\ (calls[c].pc # "idle" /\ ~RequestIsValid(calls[c].raw)) =>
              /\ calls[c].pc = "rejected"
              /\ calls[c].fetchCalls = 0
              /\ calls[c].requests = <<>>
              /\ calls[c].fetched.kind = "none"

\* a request with a lower-case symbol has been refused without a fetch
C11_Witness ==
    \E c \in Calls :
        /\ calls[c].pc = "rejected"
        /\ calls[c].raw.symbol[1] = "b"
        /\ calls[c].fetchCalls = 0

\* so has a request with a limit that is not an integer
C11_WitnessFractionalLimit ==
    \E c \in Calls :
        /\ calls[c].pc = "rejected"
        /\ calls[c].raw.limit.tenths # 0

----------------------------------------------------------------------------
(* C15 *)

\* the handler returned the JSON text of an indicator result
ReturnedJson(c) ==
    /\ calls[c].outcome.kind = "return"
    /\ calls[c].outcome.content[1].text.kind = "json"

\* C15: within one tool invocation the handler calls fetchOhlcvData exactly
\* once and the indicator at most once, in the order fetch, indicator,
\* serialization: the indicator is called only after fetchOhlcvData has
\* returned a price series, never while the fetch is pending and never when
\* the fetch fails, and a result is serialized only after the indicator call.
C15_FetchThenIndicatorThenSerialization ==
    \A c \in Calls :
        /\ HandlerEntered(c) => calls[c].fetchCalls = 1
        /\ calls[c].fetchCalls <= 1
        /\ calls[c].indicatorCalls \in {0, 1}
        /\ calls[c].indicatorCalls = 1 =>
              /\ Completed(c)
              /\ calls[c].fetchCalls = 1
              /\ calls[c].fetched.kind = "return"
        /\ calls[c].pc = "awaiting" =>
              /\ calls[c].indicatorCalls = 0
              /\ calls[c].outcome.kind = "none"
        /\ (Completed(c) /\ calls[c].fetched.kind = "throw") =>
              /\ calls[c].indicatorCalls = 0
              /\ ~ReturnedJson(c)
        /\ ReturnedJson(c) => calls[c].indicatorCalls = 1

\* the fetch failed on a provider rejection and the indicator was not called
C15_Witness ==
    \E c \in Calls :
        /\ Rejected(c)
        /\ calls[c].fetchCalls = 1
        /\ calls[c].fetched.kind = "throw"
        /\ calls[c].indicatorCalls = 0

\* the fetch returned, the indicator was called once and its result serialized
C15_WitnessSerialized ==
    \E c \in Calls :
        /\ ReturnedJson(c)
        /\ calls[c].fetchCalls = 1
        /\ calls[c].indicatorCalls = 1

----------------------------------------------------------------------------
(* C17 *)

\* C17: for every invocation that passes the capability check, the single
\* request made to the provider carries the caller's symbol, timeframe and
\* limit unchanged (the schema defaults 1h and 100 where the caller gave
\* none) and a start time (since) that is undefined.
C17_RequestCarriesCallerArguments ==
    \A c \in Calls :
        /\ (HandlerEntered(c) /\ exchange.has) => Len(calls[c].requests) = 1
        /\ \A k \in 1..Len(calls[c].requests) :
              /\ calls[c].requests[k].symbol = calls[c].raw.symbol
              /\ calls[c].requests[k].symbol = calls[c].args.symbol
              /\ calls[c].requests[k].timeframe =
                    (IF calls[c].raw.timeframe.set
                     THEN calls[c].raw.timeframe.value ELSE "1h")
              /\ calls[c].requests[k].timeframe = calls[c].args.timeframe
              /\ calls[c].requests[k].limit =
                    (IF calls[c].raw.limit.set THEN calls[c].raw.limit.value ELSE 100)
              /\ calls[c].requests[k].limit = calls[c].args.limit
              /\ calls[c].requests[k].since = "undefined"

\* a request for ETH/BTC, 1d, 10000 rows has been issued as given
C17_Witness ==
    \E c \in Calls :
        /\ Len(calls[c].requests) = 1
        /\ calls[c].requests[1].symbol = <<"E", "T", "H", "/", "B", "T", "C">>
        /\ calls[c].requests[1].timeframe = "1d"
        /\ calls[c].requests[1].limit = 10000
        /\ calls[c].requests[1].since = "undefined"

\* a request of a caller who gave only the symbol carries the defaults
C17_WitnessDefaults ==
    \E c \in Calls :
        /\ Len(calls[c].requests) = 1
        /\ ~calls[c].raw.timeframe.set
        /\ ~calls[c].raw.limit.set
        /\ calls[c].requests[1].timeframe = "1h"
        /\ calls[c].requests[1].limit = 100

----------------------------------------------------------------------------
(* C18 *)

\* C18: when the response has several malformed rows, the index named in the
\* malformed-row error is the smallest malformed index: every row before the
\* named one is well-formed.
C18_SmallestMalformedIndexIsNamed ==
    \A c \in Calls :
        (/\ Responded(c)
         /\ calls[c].response.t = "array"
         /\ MalformedRows(c) # {}) =>
            \E i \in MalformedRows(c) :
                /\ \A j \in 0..(i - 1) : RowWellFormed(c, j)
                /\ \A j \in MalformedRows(c) : i <= j
                /\ calls[c].fetched.kind = "throw"
                /\ calls[c].fetched.error.message
                      = <<"Failed to fetch OHLCV data: ", "Malformed OHLCV row at index ",
                          ToString(i), ": expected 6 values">>

\* rows 1 and 3 of four are malformed: the message names 1
C18_Witness ==
    \E c \in Calls :
        /\ Responded(c)
        /\ calls[c].response.t = "array"
        /\ MalformedRows(c) = {1, 3}
        /\ Contains(calls[c].fetched.error.message, <<"Malformed OHLCV row at index ", "1">>)

----------------------------------------------------------------------------
(* C20 *)

\* C20: when EXCHANGE_NAME is unset or is the empty string, exid is "binance",
\* the allow-list check passes, a binance client is constructed and the
\* module loads without a configuration error.
C20_DefaultExchangeIsBinance ==
    (boot # "loading" /\ (~env.set \/ env.value = "")) =>
        /\ exid = "binance"
        /\ exid \in AllowList
        /\ boot = "ready"
        /\ exchange.exists
        /\ exchange.id = "binance"
        /\ exchange.enableRateLimit
        /\ bootError = NoError

\* the module has loaded with EXCHANGE_NAME set to the empty string
C20_Witness ==
    /\ boot = "ready"
    /\ env.set
    /\ env.value = ""
    /\ exid = "binance"
    /\ exchange.id = "binance"

\* the module has loaded with EXCHANGE_NAME unset
C20_WitnessUnset ==
    /\ boot = "ready"
    /\ ~env.set
    /\ exid = "binance"
    /\ exchange.id = "binance"

----------------------------------------------------------------------------
(* C12 *)

\* the named column of the returned asset, for k = 1..5
Column(a, k) ==
    IF k = 1 THEN a.openings ELSE IF k = 2 THEN a.highs ELSE IF k = 3 THEN a.lows
    ELSE IF k = 4 THEN a.closings ELSE a.volumes

\* C12: fetchOhlcvData accepts a response only if the first six fields of every
\* row are scalar numbers (a row holding null, undefined, a nested list or an
\* object among them is rejected as malformed), so on success the five numeric
\* columns hold numbers only.
C12_OnlyNumericRowsAccepted ==
    \A c \in DOMAIN calls :
        (Completed(c) /\ calls[c].fetched.kind = "return") =>
            /\ \A i \in 0..(Len(calls[c].response.items) - 1) :
                  \A k \in 0..5 : Field(c, i, k).t = "number"
            /\ \A k \in 1..5 :
                  \A i \in 1..Len(Column(calls[c].fetched.asset, k)) :
                      Column(calls[c].fetched.asset, k)[i].t = "number"

----------------------------------------------------------------------------
(* C13 *)

\* the outcome of fetchOhlcvData in invocation c follows from the response and
\* the rejection of c alone: a price series exactly when c's own response is
\* well-formed, built from the fields of c's own rows
OwnResponseDecides(c) ==
    Completed(c) =>
        /\ (calls[c].fetched.kind = "return") <=> WellFormedResponse(c)
        /\ Rejected(c) => calls[c].fetched.kind = "throw"
        /\ calls[c].fetched.kind = "return" =>
              /\ Len(calls[c].fetched.asset.dates) = Len(calls[c].response.items)
              /\ \A i \in 0..(Len(calls[c].response.items) - 1) :
                    /\ calls[c].fetched.asset.dates[i + 1].time = Field(c, i, 0)
                    /\ \A k \in 1..5 :
                          Column(calls[c].fetched.asset, k)[i + 1] = Field(c, i, k)
        /\ \A k \in 1..Len(calls[c].requests) :
              /\ calls[c].requests[k].symbol = calls[c].args.symbol
              /\ calls[c].requests[k].timeframe = calls[c].args.timeframe
              /\ calls[c].requests[k].limit = calls[c].args.limit

\* two invocations with the same arguments and the same provider answer have
\* the same outcome, whatever else was in flight
SameInputsSameOutcome(c, d) ==
    (/\ Completed(c) /\ Completed(d)
     /\ calls[c].args = calls[d].args
     /\ calls[c].response = calls[d].response
     /\ calls[c].rejection = calls[d].rejection) =>
        /\ calls[c].fetched = calls[d].fetched
        /\ (calls[c].tool = calls[d].tool /\ calls[c].handlerError = calls[d].handlerError) =>
              calls[c].outcome = calls[d].outcome

\* an invocation in flight can take the provider's answer, and a free slot can
\* start an invocation, whatever the other invocations are doing
NeverBlocked(c) ==
    /\ calls[c].pc = "awaiting" =>
          /\ ENABLED ProviderResolves(c, Arr(<<GoodRow>>), "returns")
          /\ ENABLED ProviderRejects(c, NonErr("undefined"))
    /\ (calls[c].pc = "idle" /\ boot = "ready") =>
          \A raw \in PairArgs :
              ENABLED ToolCall(c, "calculate_acceleration_bands_strategy", raw)

\* a step of one invocation leaves every other invocation as it was
OneInvocationPerStep ==
    \A c \in DOMAIN calls :
        calls'[c] # calls[c] => \A d \in (DOMAIN calls) \ {c} : calls'[d] = calls[d]

\* C13: with several invocations in flight on the shared client, in every
\* interleaving of requests and answers each invocation's outcome is decided
\* by its own arguments and its own provider answer alone, as if it ran
\* alone, and no invocation blocks or waits on another.
C13_ConcurrentInvocationsAreIndependent ==
    /\ [](\A c \in DOMAIN calls :
             /\ OwnResponseDecides(c)
             /\ NeverBlocked(c)
             /\ \A d \in DOMAIN calls : SameInputsSameOutcome(c, d))
    /\ [][OneInvocationPerStep]_vars

\* one invocation has failed on its own malformed response while the other,
\* started with the same arguments, has returned a series from its own
C13_Witness ==
    \E c, d \in DOMAIN calls :
        /\ c # d
        /\ Completed(c) /\ Completed(d)
        /\ calls[c].args = calls[d].args
        /\ calls[c].fetched.kind = "return"
        /\ calls[d].fetched.kind = "throw"
        /\ Responded(d)

\* one invocation has completed while the other is still in flight
C13_WitnessInFlight ==
    \E c, d \in DOMAIN calls :
        /\ c # d
        /\ Completed(c) /\ Responded(c)
        /\ calls[d].pc = "awaiting"

----------------------------------------------------------------------------
(* C14 *)

\* an invocation in a slot that served earlier invocations ends as the same
\* invocation does in a slot that never served one
HistoryDoesNotMatter(c, d) ==
    (/\ Completed(c) /\ Completed(d)
     /\ calls[c].reused /\ ~calls[d].reused
     /\ calls[c].args = calls[d].args
     /\ calls[c].response = calls[d].response
     /\ calls[c].rejection = calls[d].rejection) =>
        calls[c].fetched = calls[d].fetched

\* a slot that is free again holds nothing of the invocations it served
NothingKept(c) ==
    calls[c].pc = "idle" =>
        /\ calls[c].requests = <<>>
        /\ calls[c].response = NoResponse
        /\ calls[c].rejection = NoError
        /\ calls[c].fetched = Pending
        /\ calls[c].outcome = NoOutcome

\* once the module has loaded, no step changes the provider identifier, the
\* client or the environment
ConfigurationUnchanged ==
    boot # "loading" =>
        /\ exid' = exid
        /\ exchange' = exchange
        /\ env' = env
        /\ boot' = boot
        /\ bootError' = bootError

\* C14: fetchOhlcvData holds no state between calls: after any earlier
\* invocations, successful or failed, the next invocation's outcome is the
\* same function of its arguments and its provider answer as for a first
\* invocation, and no invocation changes the configured provider identifier
\* or the client.
C14_NoStateBetweenCalls ==
    /\ [](\A c \in DOMAIN calls :
             /\ NothingKept(c)
             /\ calls[c].reused => OwnResponseDecides(c)
             /\ \A d \in DOMAIN calls : HistoryDoesNotMatter(c, d))
    /\ [][ConfigurationUnchanged]_vars

\* an invocation after earlier ones and a first invocation, with the same
\* arguments and the same response, have both returned
C14_Witness ==
    \E c, d \in DOMAIN calls :
        /\ Completed(c) /\ Completed(d)
        /\ calls[c].reused /\ ~calls[d].reused
        /\ calls[c].args = calls[d].args
        /\ calls[c].response = calls[d].response
        /\ Responded(c)
        /\ calls[c].fetched.kind = "return"
        /\ exchange.exists /\ exchange.id = exid

\* an invocation after earlier ones has failed on a provider rejection
C14_WitnessAfterFailure ==
    \E c \in DOMAIN calls :
        /\ calls[c].reused
        /\ Rejected(c)
        /\ exchange.has

----------------------------------------------------------------------------
(* C16 *)

\* an invocation in flight has neither returned nor failed
InFlightIsNotSettled(c) ==
    calls[c].pc = "awaiting" =>
        /\ calls[c].fetched = Pending
        /\ calls[c].outcome = NoOutcome
        /\ calls[c].response = NoResponse
        /\ calls[c].rejection = NoError

\* an invocation whose provider call has resolved or rejected has completed
AnsweredIsSettled(c) ==
    (calls[c].response # NoResponse \/ calls[c].rejection # NoError) =>
        /\ Completed(c)
        /\ calls[c].fetched.kind \in {"return", "throw"}
        /\ calls[c].outcome.kind \in {"return", "throw"}

\* an invocation leaves the await only on the provider's answer: there is no
\* timeout and no cancellation
LeavesAwaitOnlyOnAnswer ==
    \A c \in PairCalls :
        (calls[c].pc = "awaiting" /\ calls'[c].pc # "awaiting") =>
            /\ calls'[c].pc = "done"
            /\ calls'[c].response # NoResponse \/ calls'[c].rejection # NoError

\* C16: there is no timeout or cancellation: while the provider call has not
\* answered, the invocation neither returns nor fails, and it leaves the
\* await on the provider's answer only; whenever the provider call resolves
\* or rejects, the invocation completes with a price series or an error.
C16_CompletesExactlyWhenProviderAnswers ==
    /\ [](\A c \in PairCalls : InFlightIsNotSettled(c) /\ AnsweredIsSettled(c))
    /\ [][LeavesAwaitOnlyOnAnswer]_vars
    /\ \A c \in PairCalls : (calls[c].pc = "awaiting") ~> Completed(c)

\* an invocation is in flight: its request is issued and nothing has come back
C16_Witness ==
    \E c \in PairCalls :
        /\ calls[c].pc = "awaiting"
        /\ Len(calls[c].requests) = 1
        /\ calls[c].outcome = NoOutcome

\* the provider rejected and the invocation completed with an error
C16_WitnessRejected ==
    \E c \in PairCalls :
        /\ Rejected(c)
        /\ calls[c].fetched.kind = "throw"

----------------------------------------------------------------------------
(* C19 *)

\* the two responses have the same number of rows and agree on fields 0..5 of
\* every row
AgreeOnFirstSix(c, d) ==
    /\ Len(calls[c].response.items) = Len(calls[d].response.items)
    /\ \A i \in 0..(Len(calls[c].response.items) - 1) :
          \A k \in 0..5 : Field(c, i, k) = Field(d, i, k)

\* C19: rows with more than six fields are accepted, and the fields at
\* positions 6 and beyond never influence the result: two well-formed
\* responses that agree on fields 0..5 of every row yield equal price series.
C19_ExtraFieldsDoNotInfluenceResult ==
    \A c \in DOMAIN calls :
        /\ WellFormedResponse(c) => calls[c].fetched.kind = "return"
        /\ \A d \in DOMAIN calls :
              (WellFormedResponse(c) /\ WellFormedResponse(d) /\ AgreeOnFirstSix(c, d)) =>
                  /\ calls[c].fetched.kind = "return"
                  /\ calls[c].fetched = calls[d].fetched

\* one response has a seventh field in its row, the other has not, and both
\* invocations returned the same series
C19_Witness ==
    \E c, d \in DOMAIN calls :
        /\ WellFormedResponse(c) /\ WellFormedResponse(d)
        /\ AgreeOnFirstSix(c, d)
        /\ Len(calls[c].response.items[1].items) = 7
        /\ Len(calls[d].response.items[1].items) = 6
        /\ calls[c].fetched.kind = "return"
        /\ calls[c].fetched.asset = calls[d].fetched.asset

----------------------------------------------------------------------------
(* C21 *)

\* C21: every tool computes its result from Binance data, as its registered
\* description states: whenever a tool handler has fetched data, the provider
\* that fetchOhlcvData queried is binance.
C21_ProviderIsBinance ==
    \A c \in Calls :
        (calls[c].fetchCalls > 0 /\ calls[c].requests # <<>>) =>
            /\ exid = DescribedProvider(calls[c].tool)
            /\ exchange.id = DescribedProvider(calls[c].tool)

====
